---- MODULE Spec2Model ----
(***************************************************************************)
(* A model of pybf (src/bf.py): BFCompiler.compile with the rules of       *)
(* BFDefaultInstructions, and BFVM.run executing the compiled closures.    *)
(* Addresses (code_ptr, mem_ptr, close_addr, open_addr) are 0-based as in  *)
(* the Python source; TLA+ sequences are 1-based, so element i of a Python *)
(* list is element i + 1 of the sequence that models it.                   *)
(***************************************************************************)
EXTENDS Integers, Sequences, FiniteSets, TLC

\* ------------------------------------------------------------------ bounds
\* Longest source text that is compiled.
MaxLen == 4
\* Most characters written to stdout / read from the input collaborator.
MaxOut == 2
MaxIn == 1
\* Most calls of BFVM.run on the one VM object.
MaxRuns == 2
\* Most steps the reference interpreter of the properties is followed for.
RefFuel == 100
\* Most characters written to stdout by the one program of SpecHello.
MaxHelloOut == 5
\* Longest source text whose compilation is followed to its end under
\* fairness.
MaxLiveLen == 3
\* Longest source text of the programs run one after the other on one VM.
MaxRerunLen == 2
\* Longest source text given to main.
MaxMainLen == 3
\* Longest source text whose program is disassembled; the start, end and
\* code_ptr arguments go one past the program on either side.
MaxDisLen == 2

\* Configurations BFVM(mem_size, cell_size) is constructed with: a one-cell
\* tape of bits, and a two-cell tape (the data pointer wraps) modulo 3.
Configs == {<<1, 2>>, <<2, 3>>}

\* ------------------------------------------------------------- characters
\* The eight keys of BFDefaultInstructions.instructions.
InstructionChars == {"+", "-", ">", "<", "[", "]", ",", "."}
\* "x" stands for every character that is no key of the instruction set.
Chars == InstructionChars \cup {"x"}
Sources == UNION {[1..n -> Chars] : n \in 0..MaxLen}
\* The source texts that are also run: those with no unrecognised character
\* after the first position (compile drops them before any instruction runs).
RunSources ==
  {s \in Sources : \A i \in 2..Len(s) : s[i] \in InstructionChars}

\* The defaults of BFVM.__init__: the tape length and the cell modulus.
DefaultMemSize == 1024
DefaultCellSize == 256
\* A program that prints "Hello": nested loops, pointer scans and a cell
\* that wraps below zero.
HelloSource ==
  <<
    "+", "+", "+", "+", "+", "+", "+", "+", "[", ">", "+", "+",
    "+", "+", "[", ">", "+", "+", ">", "+", "+", "+", ">", "+",
    "+", "+", ">", "+", "<", "<", "<", "<", "-", "]", ">", "+",
    ">", "+", ">", "-", ">", ">", "+", "[", "<", "]", "<", "-",
    "]", ">", ">", ".", ">", "-", "-", "-", ".", "+", "+", "+",
    "+", "+", "+", "+", ".", ".", "+", "+", "+", "."
  >>

\* Python's None, for the integer-valued attributes close_addr / open_addr.
None == -2

\* ------------------------------------------------------------ instructions
\* A compiled instruction: the closure f with the attributes the rules and
\* compile set on it (type, src, close_addr) and the variables it closes over
\* (delta, open_addr).
NewInst(delta, close_addr, open_addr, src) ==
  [type |-> "unset", delta |-> delta, close_addr |-> close_addr,
   open_addr |-> open_addr, src |-> src]

\* What a rule returns: (inst, src), with inst None when is_none; the compiled
\* list as the rule left it (close_loop writes to it); the BFCompileError it
\* raised instead, if any ("" when none).
RuleResult(is_none, inst, src, compiled, exc) ==
  [is_none |-> is_none, inst |-> inst, src |-> src, compiled |-> compiled,
   exc |-> exc]

NoneInst == NewInst(0, None, None, <<>>)

\* The while loop of add: consumes the leading run of '+'/'-'.
RECURSIVE add_loop(_, _, _)
add_loop(src, delta, orig_src) ==
  IF Len(src) > 0 /\ Head(src) \in {"+", "-"}
  THEN add_loop(Tail(src),
                delta + (IF Head(src) = "+" THEN 1 ELSE 0)
                      - (IF Head(src) = "-" THEN 1 ELSE 0),
                Append(orig_src, Head(src)))
  ELSE [delta |-> delta, orig_src |-> orig_src, src |-> src]

\* A variant of add that returns an instruction for a run summing to zero too.
add_keep_zero(src, compiled) ==
  LET r == add_loop(src, 0, <<>>) IN
  RuleResult(FALSE, NewInst(r.delta, None, None, r.orig_src), r.src,
             compiled, "")
add(src, compiled) ==
  LET r == add_loop(src, 0, <<>>) IN
  IF r.delta = 0
  THEN RuleResult(TRUE, NoneInst, r.src, compiled, "")
  ELSE RuleResult(FALSE, NewInst(r.delta, None, None, r.orig_src), r.src,
                  compiled, "")

\* The while loop of move_ptr: consumes the leading run of '<'/'>'.
RECURSIVE move_ptr_loop(_, _, _)
move_ptr_loop(src, delta, orig_src) ==
  IF Len(src) > 0 /\ Head(src) \in {"<", ">"}
  THEN move_ptr_loop(Tail(src),
                     delta + (IF Head(src) = ">" THEN 1 ELSE 0)
                           - (IF Head(src) = "<" THEN 1 ELSE 0),
                     Append(orig_src, Head(src)))
  ELSE [delta |-> delta, orig_src |-> orig_src, src |-> src]

move_ptr(src, compiled) ==
  LET r == move_ptr_loop(src, 0, <<>>) IN
  IF r.delta = 0
  THEN RuleResult(TRUE, NoneInst, r.src, compiled, "")
  ELSE RuleResult(FALSE, NewInst(r.delta, None, None, r.orig_src), r.src,
                  compiled, "")

open_loop(src, compiled) ==
  RuleResult(FALSE, NewInst(0, None, None, <<Head(src)>>), Tail(src),
             compiled, "")

\* A variant of the scan that does not count the loop-closes it passes.
RECURSIVE close_loop_scan_flat(_, _, _, _)
close_loop_scan_flat(compiled, open_addr, depth, inst_addr) ==
  IF open_addr >= 0 /\ depth > 0
  THEN LET inst == compiled[open_addr + 1]
           d1 == IF inst.type = "open_loop" THEN depth - 1 ELSE depth
       IN close_loop_scan_flat(compiled, open_addr - 1, d1, open_addr)
  ELSE [open_addr |-> open_addr, depth |-> depth, inst_addr |-> inst_addr]

\* The backward scan of close_loop. inst_addr is the address of the
\* instruction the variable inst was last bound to (None before the first
\* iteration); open_addr is decremented after every instruction looked at.
RECURSIVE close_loop_scan(_, _, _, _)
close_loop_scan(compiled, open_addr, depth, inst_addr) ==
  IF open_addr >= 0 /\ depth > 0
  THEN LET inst == compiled[open_addr + 1]
           d1 == IF inst.type = "open_loop" THEN depth - 1 ELSE depth
           d2 == IF inst.type = "close_loop" THEN d1 + 1 ELSE d1
       IN close_loop_scan(compiled, open_addr - 1, d2, open_addr)
  ELSE [open_addr |-> open_addr, depth |-> depth, inst_addr |-> inst_addr]

\* A variant of close_loop whose closure jumps to the address of the matched
\* loop-open itself (inst_addr) instead of the scan's final open_addr.
close_loop_at_open(src, compiled) ==
  LET s == close_loop_scan(compiled, Len(compiled) - 1, 1, None) IN
  IF s.depth > 0
  THEN RuleResult(FALSE, NoneInst, src, compiled, "Unopened loop")
  ELSE RuleResult(FALSE, NewInst(0, None, s.inst_addr, <<Head(src)>>),
                  Tail(src),
                  [compiled EXCEPT ![s.inst_addr + 1].close_addr = Len(compiled)],
                  "")

close_loop(src, compiled) ==
  LET s == close_loop_scan(compiled, Len(compiled) - 1, 1, None) IN
  IF s.depth > 0
  THEN RuleResult(FALSE, NoneInst, src, compiled, "Unopened loop")
  ELSE RuleResult(FALSE, NewInst(0, None, s.open_addr, <<Head(src)>>),
                  Tail(src),
                  [compiled EXCEPT ![s.inst_addr + 1].close_addr = Len(compiled)],
                  "")

\* A variant of getch that returns the source without consuming the ','.
getch_peek(src, compiled) ==
  RuleResult(FALSE, NewInst(0, None, None, <<Head(src)>>), src, compiled, "")
getch(src, compiled) ==
  RuleResult(FALSE, NewInst(0, None, None, <<Head(src)>>), Tail(src),
             compiled, "")

putch(src, compiled) ==
  RuleResult(FALSE, NewInst(0, None, None, <<Head(src)>>), Tail(src),
             compiled, "")

\* The dictionary BFDefaultInstructions.instructions: character -> rule.
RuleName(c) ==
  CASE c \in {"+", "-"} -> "add"
    [] c \in {">", "<"} -> "move_ptr"
    [] c = "[" -> "open_loop"
    [] c = "]" -> "close_loop"
    [] c = "," -> "getch"
    [] c = "." -> "putch"

Rule(c, src, compiled) ==
  CASE c \in {"+", "-"} -> add(src, compiled)
    [] c \in {">", "<"} -> move_ptr(src, compiled)
    [] c = "[" -> open_loop(src, compiled)
    [] c = "]" -> close_loop(src, compiled)
    [] c = "," -> getch(src, compiled)
    [] c = "." -> putch(src, compiled)

\* ---------------------------------------------------------------- compile
\* A variant of skip that drops the character after the unrecognised one too.
skip_two(code) == IF Len(code) > 1 THEN Tail(Tail(code)) ELSE Tail(code)

\* The else branch of the compile loop: an unrecognised character is dropped.
skip(code) == Tail(code)

\* One iteration of the while loop of compile on the local variables
\* st = [code, ch, instructions, exc]; exc is the BFCompileError raised by
\* the rule ("" when none), which leaves code and instructions as they were.
compile_iter(st) ==
  LET c == Head(st.code) IN
  IF c \in InstructionChars
  THEN LET r == Rule(c, st.code, st.instructions) IN
       IF r.exc # ""
       THEN [st EXCEPT !.ch = c, !.exc = r.exc]
       ELSE IF r.is_none
       THEN [code |-> r.src, ch |-> c, instructions |-> r.compiled, exc |-> ""]
       ELSE [code |-> r.src, ch |-> c,
             instructions |->
               Append(r.compiled, [r.inst EXCEPT !.type = RuleName(c)]),
             exc |-> ""]
  ELSE [st EXCEPT !.ch = c, !.code = skip(st.code)]

\* The error compile re-raises: position len(orig_code) - len(code), the
\* character ch and the rule's message.
NoError == [pos |-> -1, ch |-> "", msg |-> ""]
\* A variant of compile_error that reports the position 1-based.
compile_error_one_based(orig, st) ==
  [pos |-> Len(orig) - Len(st.code) + 1, ch |-> st.ch, msg |-> st.exc]

compile_error(orig, st) ==
  [pos |-> Len(orig) - Len(st.code), ch |-> st.ch, msg |-> st.exc]

\* compile as a function of the source text: the loop run to its end.
RECURSIVE compile_loop(_)
compile_loop(st) ==
  IF st.exc # "" \/ Len(st.code) = 0 THEN st ELSE compile_loop(compile_iter(st))

compile(source) ==
  compile_loop([code |-> source, ch |-> "", instructions |-> <<>>, exc |-> ""])

\* ----------------------------------------------------------------- disasm
\* The repr attribute the rules give their closures: the mnemonic and, for
\* add and move, the delta that '%i' formats.
inst_repr(inst) ==
  CASE inst.type = "add" -> <<"add", inst.delta>>
    [] inst.type = "move_ptr" -> <<"move", inst.delta>>
    [] inst.type = "open_loop" -> <<"loop">>
    [] inst.type = "close_loop" -> <<"end loop">>
    [] inst.type = "getch" -> <<"getch">>
    [] inst.type = "putch" -> <<"putch">>

\* The end argument of disasm: <<>> is None, <<n>> the integer n.
NoEnd == <<>>

\* BFCompiler.disasm: one line (mark, address, repr, src) for every i of
\* range(start, end + 1), end lowered to the last index when it is None or
\* past it. instructions[i] is a Python subscript: a negative i counts from
\* the end, and an i below -len raises IndexError.
disasm(insts, start, end, cp) ==
  LET e == IF end = NoEnd THEN Len(insts) - 1
           ELSE IF end[1] >= Len(insts) THEN Len(insts) - 1 ELSE end[1]
      n == IF e + 1 > start THEN e + 1 - start ELSE 0
      addr(k) == start + k - 1
  IN IF \E k \in 1..n : addr(k) < 0 - Len(insts) \/ addr(k) >= Len(insts)
     THEN [lines |-> <<>>,
           exc |-> [type |-> "IndexError",
                    msg |-> <<"list index out of range">>]]
     ELSE [lines |-> [k \in 1..n |->
                        [mark |-> addr(k) = cp,
                         addr |-> addr(k),
                         repr |-> inst_repr(IF addr(k) >= 0
                                            THEN insts[addr(k) + 1]
                                            ELSE insts[Len(insts) + addr(k) + 1]),
                         src |-> (IF addr(k) >= 0
                                  THEN insts[addr(k) + 1]
                                  ELSE insts[Len(insts) + addr(k) + 1]).src]],
           exc |-> [type |-> "", msg |-> <<>>]]

\* ---------------------------------------------------------- input device
\* Characters as their codes. EmptyStr is '', what sys.stdin.read(1) returns
\* at the end of a stream that is no terminal.
EmptyStr == -1
CtrlC == 3
CtrlD == 4
CR == 13
LF == 10
\* What self._getch() may deliver: the three characters TermIO.getch treats
\* specially, '', and an ordinary character.
RawChars == {EmptyStr, 1, CtrlC, CtrlD, CR}

\* Exceptions: the class name and the message parts.
NoExc == [type |-> "", msg |-> <<>>]
Exc(type, msg) == [type |-> type, msg |-> msg]
\* Classes derived from Exception, which `except Exception` catches;
\* KeyboardInterrupt derives from BaseException only.
ExceptionClasses ==
  {"BFRuntimeError", "BFCompileError", "BFInternalError", "EOFError",
   "TypeError", "IndexError", "ValueError"}

\* TermIO.getch on the character raw delivered by self._getch().
TermIO_getch(raw) ==
  IF raw = CtrlC THEN [ch |-> raw, exc |-> Exc("KeyboardInterrupt", <<>>)]
  ELSE IF raw = CtrlD THEN [ch |-> raw, exc |-> Exc("EOFError", <<>>)]
  ELSE IF raw = CR THEN [ch |-> LF, exc |-> NoExc]
  ELSE [ch |-> raw, exc |-> NoExc]

\* ord(ch): the code of a one-character string, TypeError for ''.
ord(c) ==
  IF c = EmptyStr
  THEN [val |-> 0, exc |-> Exc("TypeError", <<"ord() expected a character">>)]
  ELSE [val |-> c, exc |-> NoExc]

\* chr(v): the character of code v, ValueError outside the code points.
MaxCodePoint == 1114111
chr(v) ==
  IF v >= 0 /\ v <= MaxCodePoint
  THEN [ch |-> v, exc |-> NoExc]
  ELSE [ch |-> EmptyStr, exc |-> Exc("ValueError", <<"chr() arg not in range">>)]

\* ---------------------------------------------------------------------- VM
\* seq[i] of a Python list, i >= 0 or negative (counted from the end).
pyindex(seq, i) == IF i >= 0 THEN seq[i + 1] ELSE seq[Len(seq) + i + 1]

\* BFVM.reset on the VM fields vm = [mem_size, cell_size, mem_ptr, memory,
\* code_ptr].
reset(vm) ==
  [vm EXCEPT !.mem_ptr = 0,
             !.memory = [i \in 1..vm.mem_size |-> 0],
             !.code_ptr = 0]

\* BFVM.__init__.
BFVM_init(m, c) ==
  reset([mem_size |-> m, cell_size |-> c, mem_ptr |-> 0, memory |-> <<>>,
         code_ptr |-> 0])

\* The closures f(vm) of the six rules. Each yields the VM fields after the
\* call, the exception it raised (NoExc when none), and what it wrote to
\* stdout.
Effect(vm, exc, out) == [vm |-> vm, exc |-> exc, out |-> out]

\* A variant of add_f that applies no modulus.
add_f_unbounded(inst, vm) ==
  Effect([vm EXCEPT !.memory[vm.mem_ptr + 1] = @ + inst.delta], NoExc, <<>>)

add_f(inst, vm) ==
  Effect([vm EXCEPT !.memory[vm.mem_ptr + 1] = (@ + inst.delta) % vm.cell_size],
         NoExc, <<>>)

\* A variant of move_ptr_f that clears the cell it leaves.
move_ptr_f_clear(inst, vm) ==
  Effect([vm EXCEPT !.mem_ptr = (@ + inst.delta) % vm.mem_size,
                    !.memory[vm.mem_ptr + 1] = 0], NoExc, <<>>)
move_ptr_f(inst, vm) ==
  Effect([vm EXCEPT !.mem_ptr = (@ + inst.delta) % vm.mem_size], NoExc, <<>>)

\* A variant of open_loop_f that looks at close_addr before the cell.
open_loop_f_strict(inst, vm) ==
  IF inst.close_addr = None
  THEN Effect(vm, Exc("BFRuntimeError", <<"Unclosed loop">>), <<>>)
  ELSE IF pyindex(vm.memory, vm.mem_ptr) = 0
  THEN Effect([vm EXCEPT !.code_ptr = inst.close_addr], NoExc, <<>>)
  ELSE Effect(vm, NoExc, <<>>)
\* A variant of open_loop_f that tests for a nonzero cell.
open_loop_f_nonzero(inst, vm) ==
  IF pyindex(vm.memory, vm.mem_ptr) # 0
  THEN IF inst.close_addr = None
       THEN Effect(vm, Exc("BFRuntimeError", <<"Unclosed loop">>), <<>>)
       ELSE Effect([vm EXCEPT !.code_ptr = inst.close_addr], NoExc, <<>>)
  ELSE Effect(vm, NoExc, <<>>)

open_loop_f(inst, vm) ==
  IF pyindex(vm.memory, vm.mem_ptr) = 0
  THEN IF inst.close_addr = None
       THEN Effect(vm, Exc("BFRuntimeError", <<"Unclosed loop">>), <<>>)
       ELSE Effect([vm EXCEPT !.code_ptr = inst.close_addr], NoExc, <<>>)
  ELSE Effect(vm, NoExc, <<>>)

\* A variant of close_loop_f that never jumps back.
close_loop_f_once(inst, vm) == Effect(vm, NoExc, <<>>)

close_loop_f(inst, vm) ==
  IF pyindex(vm.memory, vm.mem_ptr) # 0
  THEN Effect([vm EXCEPT !.code_ptr = inst.open_addr], NoExc, <<>>)
  ELSE Effect(vm, NoExc, <<>>)

\* A variant of getch_f that reduces the code modulo the cell size.
getch_f_mod(inst, vm, raw) ==
  LET g == TermIO_getch(raw) IN
  IF g.exc # NoExc THEN Effect(vm, g.exc, <<>>)
  ELSE LET o == ord(g.ch) IN
       IF o.exc # NoExc THEN Effect(vm, o.exc, <<>>)
       ELSE Effect([vm EXCEPT !.memory[vm.mem_ptr + 1] = o.val % vm.cell_size],
                   NoExc, <<>>)

\* raw is the character self._getch() delivers to this call.
getch_f(inst, vm, raw) ==
  LET g == TermIO_getch(raw) IN
  IF g.exc # NoExc THEN Effect(vm, g.exc, <<>>)
  ELSE LET o == ord(g.ch) IN
       IF o.exc # NoExc THEN Effect(vm, o.exc, <<>>)
       ELSE Effect([vm EXCEPT !.memory[vm.mem_ptr + 1] = o.val], NoExc, <<>>)

putch_f(inst, vm) ==
  LET c == chr(pyindex(vm.memory, vm.mem_ptr)) IN
  IF c.exc # NoExc THEN Effect(vm, c.exc, <<>>)
  ELSE Effect(vm, NoExc, <<c.ch>>)

\* seq[a:b] of a Python list, for 0 <= a and 0 <= b.
pyslice(seq, a, b) ==
  SubSeq(seq, a + 1, IF b <= Len(seq) THEN b ELSE Len(seq))

\* The except clause of run: an Exception becomes a BFInternalError carrying
\* the original class name and message; anything else propagates.
run_except(e) ==
  IF e.type \in ExceptionClasses
  THEN Exc("BFInternalError", <<e.type>> \o e.msg)
  ELSE e

\* ------------------------------------------------------------------- main
\* How far the debug print of main looks around code_ptr and mem_ptr.
DisasmWindow == 10
MemWindow == 20

\* A variant of main_except that swallows the interrupt whatever the flag.
main_except_quiet(e, debug) ==
  IF e.type = "KeyboardInterrupt" THEN NoExc ELSE e

\* The try statement of main around vm.run: the exception that leaves it when
\* run raised e (NoExc when it is swallowed). Only KeyboardInterrupt is
\* caught, and re-raised unless args.debug.
main_except(e, debug) ==
  IF e.type = "KeyboardInterrupt" /\ debug THEN NoExc ELSE e

\* What the `if args.debug` block of main prints for the program prog and the
\* VM fields vm: the header, IP and MP, the disassembly around code_ptr, and
\* the tape around mem_ptr with the cell under it bracketed; exc is the
\* exception disasm raised, if any, and items what was printed before it.
last_state(prog, vm) ==
  LET d == disasm(prog,
                  IF vm.code_ptr - DisasmWindow > 0
                  THEN vm.code_ptr - DisasmWindow ELSE 0,
                  <<vm.code_ptr + DisasmWindow>>, vm.code_ptr)
      mem == [i \in 1..Len(vm.memory) |->
                [val |-> vm.memory[i], bracketed |-> i = vm.mem_ptr + 1]]
      head == <<[kind |-> "header"],
                [kind |-> "ip_mp", ip |-> vm.code_ptr, mp |-> vm.mem_ptr],
                [kind |-> "disassembly_header"]>>
  IN IF d.exc # NoExc
     THEN [items |-> head, exc |-> d.exc]
     ELSE [items |-> head \o
                     <<[kind |-> "disasm", lines |-> d.lines],
                       [kind |-> "memory",
                        cells |-> pyslice(mem,
                                          IF vm.mem_ptr - MemWindow > 0
                                          THEN vm.mem_ptr - MemWindow ELSE 0,
                                          vm.mem_ptr + MemWindow)]>>,
           exc |-> NoExc]

\* ------------------------------------------------------------------- state
VARIABLES
  orig_code,      \* compile: the source text passed in
  code,           \* compile: the source not yet consumed
  ch,             \* compile: the character last dispatched on
  instructions,   \* compile: the instructions built so far
  compile_pc,     \* "loop" | "returned" | "raised"
  compile_err,    \* the BFCompileError raised, NoError before
  bytecode,       \* what compile returned: <<>> before, <<program>> after
  mem_size,       \* BFVM.mem_size
  cell_size,      \* BFVM.cell_size
  mem_ptr,        \* BFVM.mem_ptr
  memory,         \* BFVM.memory
  code_ptr,       \* BFVM.code_ptr
  vm_code,        \* BFVM.code, the program of the last run call
  run_pc,         \* "idle" | "running" | "returned" | "raised"
  raised,         \* the exception that left run, NoExc when none
  runs,           \* the number of run calls made on the VM
  delivered,      \* the characters getch() returned to Input instructions
  output,         \* the character codes written to stdout
  args,           \* main: the flags [debug, disasm] of the command line
  main_pc,        \* main: "body" | "returned" | "raised"
  main_exc,       \* main: the exception that left main, NoExc when none
  printed,        \* main: what it has passed to print, in order
  disassembly     \* a direct call of disasm: <<>> before, <<call>> after

cvars == <<orig_code, code, ch, instructions, compile_pc, compile_err, bytecode>>
vmvars == <<mem_size, cell_size, mem_ptr, memory, code_ptr, vm_code, run_pc,
            raised, runs, delivered, output>>
mvars == <<args, main_pc, main_exc, printed, disassembly>>
vars == <<cvars, vmvars, mvars>>

\* The VM fields as the record the closures work on.
VM ==
  [mem_size |-> mem_size, cell_size |-> cell_size, mem_ptr |-> mem_ptr,
   memory |-> memory, code_ptr |-> code_ptr]

\* main: vm = BFVM(...), then compiler.compile(code), for the source texts
\* srcs, the VM configurations cfgs and the command-line flags in flags.
InitArgs(srcs, cfgs, flags) ==
  /\ args \in flags
  /\ main_pc = "body"
  /\ main_exc = NoExc
  /\ printed = <<>>
  /\ disassembly = <<>>
  /\ orig_code \in srcs
  /\ code = orig_code
  /\ ch = ""
  /\ instructions = <<>>
  /\ compile_pc = "loop"
  /\ compile_err = NoError
  /\ bytecode = <<>>
  /\ \E cfg \in cfgs :
       LET vm == BFVM_init(cfg[1], cfg[2]) IN
         /\ mem_size = vm.mem_size /\ cell_size = vm.cell_size
         /\ mem_ptr = vm.mem_ptr /\ memory = vm.memory
         /\ code_ptr = vm.code_ptr
  /\ vm_code = <<>>
  /\ run_pc = "idle"
  /\ raised = NoExc
  /\ runs = 0
  /\ delivered = <<>>
  /\ output = <<>>

\* The same with neither --debug nor --disasm given.
NoFlags == [debug |-> FALSE, disasm |-> FALSE]
InitWith(srcs, cfgs) == InitArgs(srcs, cfgs, {NoFlags})

Init == InitWith(RunSources, Configs)

\* Compilation alone, of every source text; the VM stays as constructed.
InitCompile == InitWith(Sources, {<<1, 2>>})

CompileLocals == [code |-> code, ch |-> ch, instructions |-> instructions, exc |-> ""]

\* An iteration in which a rule returned an instruction, which is appended.
CompileAppend ==
  /\ compile_pc = "loop" /\ Len(code) > 0
  /\ Head(code) \in InstructionChars
  /\ LET st == compile_iter(CompileLocals) IN
       /\ st.exc = ""
       /\ Len(st.instructions) > Len(instructions)
       /\ code' = st.code /\ ch' = st.ch /\ instructions' = st.instructions
  /\ UNCHANGED <<orig_code, compile_pc, compile_err, bytecode, vmvars, mvars>>

\* An iteration in which the rule returned None (a run summing to zero).
CompileContinue ==
  /\ compile_pc = "loop" /\ Len(code) > 0
  /\ Head(code) \in InstructionChars
  /\ LET st == compile_iter(CompileLocals) IN
       /\ st.exc = ""
       /\ Len(st.instructions) = Len(instructions)
       /\ code' = st.code /\ ch' = st.ch /\ instructions' = st.instructions
  /\ UNCHANGED <<orig_code, compile_pc, compile_err, bytecode, vmvars, mvars>>

\* An iteration on a character that is no key of the instruction set.
CompileSkip ==
  /\ compile_pc = "loop" /\ Len(code) > 0
  /\ Head(code) \notin InstructionChars
  /\ LET st == compile_iter(CompileLocals) IN
       code' = st.code /\ ch' = st.ch /\ instructions' = st.instructions
  /\ UNCHANGED <<orig_code, compile_pc, compile_err, bytecode, vmvars, mvars>>

\* An iteration in which the rule raised BFCompileError: compile re-raises.
CompileRaise ==
  /\ compile_pc = "loop" /\ Len(code) > 0
  /\ Head(code) \in InstructionChars
  /\ LET st == compile_iter(CompileLocals) IN
       /\ st.exc # ""
       /\ ch' = st.ch
       /\ compile_err' = compile_error(orig_code, st)
  /\ compile_pc' = "raised"
  /\ UNCHANGED <<orig_code, code, instructions, bytecode, vmvars, mvars>>

\* The loop ends at the end of the source: return instructions.
CompileReturn ==
  /\ compile_pc = "loop" /\ Len(code) = 0
  /\ compile_pc' = "returned"
  /\ bytecode' = <<instructions>>
  /\ UNCHANGED <<orig_code, code, ch, instructions, compile_err, vmvars, mvars>>

\* vm.run(bytecode) is called: self.code = instructions. Nothing else is
\* assigned; reset is called by __init__ only.
RunCall ==
  /\ compile_pc = "returned"
  /\ run_pc \in {"idle", "returned", "raised"}
  /\ runs < MaxRuns
  /\ vm_code' = bytecode[1]
  /\ run_pc' = "running"
  /\ raised' = NoExc
  /\ runs' = runs + 1
  /\ UNCHANGED <<cvars, mem_size, cell_size, mem_ptr, memory, code_ptr,
                 delivered, output, mvars>>

\* The source texts of the programs run one after the other on one VM.
RerunSources == {s \in RunSources : Len(s) <= MaxRerunLen}

\* vm.run(other) is called on the VM that ran a program before, with another
\* compiled program: self.code = instructions, and nothing else is assigned.
RunOther ==
  /\ compile_pc = "returned"
  /\ run_pc \in {"returned", "raised"}
  /\ runs < MaxRuns
  /\ \E s \in RerunSources :
       /\ compile(s).exc = ""
       /\ vm_code' = compile(s).instructions
  /\ run_pc' = "running"
  /\ raised' = NoExc
  /\ runs' = runs + 1
  /\ UNCHANGED <<cvars, mem_size, cell_size, mem_ptr, memory, code_ptr,
                 delivered, output, mvars>>

\* The loop condition of run holds and the instruction of kind t is next.
Fetching(t) ==
  /\ run_pc = "running"
  /\ code_ptr < Len(vm_code)
  /\ pyindex(vm_code, code_ptr).type = t

\* The rest of one iteration of run after the closure was called with effect
\* e: code_ptr += 1, or the except clause when the closure raised.
Complete(e) ==
  /\ mem_size' = e.vm.mem_size
  /\ cell_size' = e.vm.cell_size
  /\ mem_ptr' = e.vm.mem_ptr
  /\ memory' = e.vm.memory
  /\ output' = output \o e.out
  /\ IF e.exc = NoExc
     THEN /\ code_ptr' = e.vm.code_ptr + 1
          /\ UNCHANGED <<run_pc, raised>>
     ELSE /\ code_ptr' = e.vm.code_ptr
          /\ run_pc' = "raised"
          /\ raised' = run_except(e.exc)
  /\ UNCHANGED <<cvars, vm_code, runs, mvars>>

ExecAdd ==
  /\ Fetching("add")
  /\ Complete(add_f(pyindex(vm_code, code_ptr), VM))
  /\ UNCHANGED delivered

ExecMove ==
  /\ Fetching("move_ptr")
  /\ Complete(move_ptr_f(pyindex(vm_code, code_ptr), VM))
  /\ UNCHANGED delivered

ExecOpenLoop ==
  /\ Fetching("open_loop")
  /\ Complete(open_loop_f(pyindex(vm_code, code_ptr), VM))
  /\ UNCHANGED delivered

ExecCloseLoop ==
  /\ Fetching("close_loop")
  /\ Complete(close_loop_f(pyindex(vm_code, code_ptr), VM))
  /\ UNCHANGED delivered

ExecGetch ==
  /\ Fetching("getch")
  /\ Len(delivered) < MaxIn
  /\ \E raw \in RawChars :
       /\ Complete(getch_f(pyindex(vm_code, code_ptr), VM, raw))
       /\ delivered' = IF TermIO_getch(raw).exc = NoExc
                       THEN Append(delivered, TermIO_getch(raw).ch)
                       ELSE delivered

\* An Output instruction, while fewer than limit characters were written.
Putch(limit) ==
  /\ Fetching("putch")
  /\ Len(output) < limit
  /\ Complete(putch_f(pyindex(vm_code, code_ptr), VM))
  /\ UNCHANGED delivered

ExecPutch == Putch(MaxOut)

\* The loop condition of run fails: run returns.
RunReturn ==
  /\ run_pc = "running"
  /\ code_ptr >= Len(vm_code)
  /\ run_pc' = "returned"
  /\ UNCHANGED <<cvars, mem_size, cell_size, mem_ptr, memory, code_ptr,
                 vm_code, raised, runs, delivered, output, mvars>>

\* ------------------------------------------------------------ main, steps
\* compiler.compile(code) raised: nothing in main catches it.
MainCompileError ==
  /\ main_pc = "body"
  /\ compile_pc = "raised"
  /\ main_pc' = "raised"
  /\ main_exc' = Exc("BFCompileError",
                     <<compile_err.pos, compile_err.ch, compile_err.msg>>)
  /\ UNCHANGED <<cvars, vmvars, args, printed, disassembly>>

\* args.disasm: print the whole disassembly and return, without running.
MainDisasm ==
  /\ main_pc = "body"
  /\ compile_pc = "returned"
  /\ args.disasm
  /\ LET d == disasm(bytecode[1], 0, NoEnd, -1) IN
       IF d.exc # NoExc
       THEN main_pc' = "raised" /\ main_exc' = d.exc /\ UNCHANGED printed
       ELSE /\ main_pc' = "returned"
            /\ printed' = Append(printed, [kind |-> "disasm", lines |-> d.lines])
            /\ UNCHANGED main_exc
  /\ UNCHANGED <<cvars, vmvars, args, disassembly>>

\* vm.run(bytecode) inside the try statement.
MainRun ==
  /\ main_pc = "body"
  /\ ~args.disasm
  /\ run_pc = "idle"
  /\ RunCall

\* run raised and the try statement lets the exception through.
MainPropagate ==
  /\ main_pc = "body"
  /\ run_pc = "raised"
  /\ main_except(raised, args.debug) # NoExc
  /\ main_pc' = "raised"
  /\ main_exc' = main_except(raised, args.debug)
  /\ UNCHANGED <<cvars, vmvars, args, printed, disassembly>>

\* The try statement of main was left without an exception.
AfterTry ==
  /\ main_pc = "body"
  /\ \/ run_pc = "returned"
     \/ run_pc = "raised" /\ main_except(raised, args.debug) = NoExc

\* args.debug: the last state is printed.
MainDebug ==
  /\ AfterTry
  /\ args.debug
  /\ LET p == last_state(bytecode[1], VM) IN
       /\ printed' = printed \o p.items
       /\ IF p.exc # NoExc
          THEN main_pc' = "raised" /\ main_exc' = p.exc
          ELSE main_pc' = "returned" /\ UNCHANGED main_exc
  /\ UNCHANGED <<cvars, vmvars, args, disassembly>>

\* No args.debug: main ends.
MainReturn ==
  /\ AfterTry
  /\ ~args.debug
  /\ main_pc' = "returned"
  /\ UNCHANGED <<cvars, vmvars, args, main_exc, printed, disassembly>>

\* The source texts whose programs are disassembled, and the integers passed
\* as start, end and code_ptr.
DisasmSources == {s \in Sources : Len(s) <= MaxDisLen}
DisasmAddrs == (0 - MaxDisLen - 1)..(MaxDisLen + 1)

\* compiler.disasm(bytecode, start, end, code_ptr) is called on the compiled
\* program.
DisasmCall ==
  /\ compile_pc = "returned"
  /\ disassembly = <<>>
  /\ \E start \in DisasmAddrs, cp \in DisasmAddrs,
        end \in {NoEnd} \cup {<<n>> : n \in DisasmAddrs} :
       disassembly' =
         <<[start |-> start, end |-> end, code_ptr |-> cp,
            result |-> disasm(bytecode[1], start, end, cp)]>>
  /\ UNCHANGED <<cvars, vmvars, args, main_pc, main_exc, printed>>

CompileNext ==
  \/ CompileAppend
  \/ CompileContinue
  \/ CompileSkip
  \/ CompileRaise
  \/ CompileReturn

Next ==
  \/ CompileAppend
  \/ CompileContinue
  \/ CompileSkip
  \/ CompileRaise
  \/ CompileReturn
  \/ RunCall
  \/ ExecAdd
  \/ ExecMove
  \/ ExecOpenLoop
  \/ ExecCloseLoop
  \/ ExecGetch
  \/ ExecPutch
  \/ RunReturn

\* One program on the default VM: no unrecognised character, no run summing
\* to zero, no compile error and no Input instruction occur in it.
InitHello == InitWith({HelloSource}, {<<DefaultMemSize, DefaultCellSize>>})

HelloPutch == Putch(MaxHelloOut)

HelloNext ==
  \/ CompileAppend
  \/ CompileReturn
  \/ RunCall
  \/ ExecAdd
  \/ ExecMove
  \/ ExecOpenLoop
  \/ ExecCloseLoop
  \/ HelloPutch
  \/ RunReturn

\* Compilation of a short source text, then one call of disasm.
InitDisasm == InitWith(DisasmSources, {<<1, 2>>})

DisasmNext ==
  \/ CompileAppend
  \/ CompileContinue
  \/ CompileSkip
  \/ CompileRaise
  \/ CompileReturn
  \/ DisasmCall

\* main on a short source text with every combination of the two flags.
MainSources == {s \in RunSources : Len(s) <= MaxMainLen}
InitMain == InitArgs(MainSources, Configs, [debug : BOOLEAN, disasm : BOOLEAN])

MainNext ==
  \/ CompileAppend
  \/ CompileContinue
  \/ CompileSkip
  \/ CompileRaise
  \/ CompileReturn
  \/ MainCompileError
  \/ MainDisasm
  \/ MainRun
  \/ ExecAdd
  \/ ExecMove
  \/ ExecOpenLoop
  \/ ExecCloseLoop
  \/ ExecGetch
  \/ ExecPutch
  \/ RunReturn
  \/ MainPropagate
  \/ MainDebug
  \/ MainReturn

\* Short programs, the VM used for a second program after the first.
InitRerun == InitWith(RerunSources, Configs)

RerunNext ==
  \/ CompileAppend
  \/ CompileContinue
  \/ CompileSkip
  \/ CompileRaise
  \/ CompileReturn
  \/ RunCall
  \/ RunOther
  \/ ExecAdd
  \/ ExecMove
  \/ ExecOpenLoop
  \/ ExecCloseLoop
  \/ ExecGetch
  \/ ExecPutch
  \/ RunReturn

Spec == Init /\ [][Next]_vars
SpecCompile == InitCompile /\ [][CompileNext]_vars
\* compile is a sequential loop that takes its next iteration whenever there
\* is one.
LiveSources == {s \in Sources : Len(s) <= MaxLiveLen}
InitCompileLive == InitWith(LiveSources, {<<1, 2>>})
SpecCompileLive ==
  InitCompileLive /\ [][CompileNext]_vars /\ WF_vars(CompileNext)
SpecDisasm == InitDisasm /\ [][DisasmNext]_vars
SpecRerun == InitRerun /\ [][RerunNext]_vars
SpecMain == InitMain /\ [][MainNext]_vars
\* compile and run are sequential loops that take their next step whenever
\* there is one.
SpecHello == InitHello /\ [][HelloNext]_vars /\ WF_vars(HelloNext)

\* ============================================================ properties
\* Helpers of the properties below; none of them models code.

Range(seq) == {seq[i] : i \in 1..Len(seq)}

\* A source text with its unrecognised characters removed.
IsInstructionChar(c) == c \in InstructionChars
Strip(s) == SelectSeq(s, IsInstructionChar)

\* What the properties compare of an instruction: kind, delta, jump targets.
Core(inst) ==
  [type |-> inst.type, delta |-> inst.delta, close_addr |-> inst.close_addr,
   open_addr |-> inst.open_addr]
Cores(prog) == [i \in 1..Len(prog) |-> Core(prog[i])]

SameFamily(a, b) ==
  \/ {a, b} \subseteq {"+", "-"}
  \/ {a, b} \subseteq {"<", ">"}

\* Some unrecognised characters stand between two characters of one family
\* that are adjacent once the unrecognised characters are removed.
NoiseSplitsRun(s) ==
  \E i, j \in 1..Len(s) :
    /\ i + 1 < j
    /\ SameFamily(s[i], s[j])
    /\ \A k \in (i + 1)..(j - 1) : s[k] \notin InstructionChars

\* The bracket structure of a program, by a stack: the set of <<o, c>>, the
\* 0-based addresses of a loop-open and of the loop-close that closes it.
RECURSIVE PairsFrom(_, _, _, _)
PairsFrom(prog, i, stack, acc) ==
  IF i > Len(prog) THEN acc
  ELSE IF prog[i].type = "open_loop"
  THEN PairsFrom(prog, i + 1, <<i - 1>> \o stack, acc)
  ELSE IF prog[i].type = "close_loop" /\ Len(stack) > 0
  THEN PairsFrom(prog, i + 1, Tail(stack), acc \cup {<<Head(stack), i - 1>>})
  ELSE PairsFrom(prog, i + 1, stack, acc)
Pairs(prog) == PairsFrom(prog, 1, <<>>, {})

\* The 0-based position of the first ']' of s that no earlier '[' is left
\* open for, -1 when there is none.
RECURSIVE FirstUnopenedFrom(_, _, _)
FirstUnopenedFrom(s, i, depth) ==
  IF i > Len(s) THEN -1
  ELSE IF s[i] = "[" THEN FirstUnopenedFrom(s, i + 1, depth + 1)
  ELSE IF s[i] = "]"
  THEN IF depth = 0 THEN i - 1 ELSE FirstUnopenedFrom(s, i + 1, depth - 1)
  ELSE FirstUnopenedFrom(s, i + 1, depth)
FirstUnopened(s) == FirstUnopenedFrom(s, 1, 0)

\* Every '[' has its ']' and every ']' its '['.
RECURSIVE OpenAtEnd(_, _, _)
OpenAtEnd(s, i, depth) ==
  IF i > Len(s) THEN depth
  ELSE OpenAtEnd(s, i + 1,
                 depth + (IF s[i] = "[" THEN 1 ELSE 0)
                       - (IF s[i] = "]" THEN 1 ELSE 0))
WellBracketed(s) == FirstUnopened(s) = -1 /\ OpenAtEnd(s, 1, 0) = 0

\* ------------------------------------------------------------------- C1
\* C1 as stated: compile of a text with unrecognised characters anywhere in
\* it returns the instruction sequence (kinds, deltas, jump targets) that
\* compile of the text without them returns.
C1_NoiseIsNoOp ==
  compile_pc = "returned" =>
    LET clean == compile(Strip(orig_code)) IN
      clean.exc = "" /\ Cores(instructions) = Cores(clean.instructions)

\* C1 amended: the two instruction sequences are the same provided no
\* unrecognised character stands inside a run of '+'/'-' or of '<'/'>'
\* (between two characters of one family that are otherwise adjacent).
C1_NoiseOutsideRunsIsNoOp ==
  (compile_pc = "returned" /\ ~NoiseSplitsRun(orig_code)) =>
    LET clean == compile(Strip(orig_code)) IN
      clean.exc = "" /\ Cores(instructions) = Cores(clean.instructions)

\* A text with an unrecognised character inside a loop body, next to a run,
\* compiled to a program with resolved jump targets.
C1_Witness ==
  /\ compile_pc = "returned"
  /\ ~NoiseSplitsRun(orig_code)
  /\ \E i \in 2..(Len(orig_code) - 1) : orig_code[i] = "x"
  /\ \E k \in 1..Len(instructions) : instructions[k].type = "close_loop"
  /\ \E k \in 1..Len(instructions) : instructions[k].type = "add"

C9_CompileErrorExactlyUnopened ==
  /\ compile_pc = "raised" =>
       /\ FirstUnopened(orig_code) # -1
       /\ compile_err = [pos |-> FirstUnopened(orig_code), ch |-> "]",
                         msg |-> "Unopened loop"]
       /\ bytecode = <<>>
  /\ compile_pc = "returned" =>
       /\ FirstUnopened(orig_code) = -1
       /\ compile_err = NoError
       /\ bytecode = <<instructions>>

\* The error for a ']' that follows an unrecognised character and an
\* already matched pair of brackets.
C9_Witness ==
  /\ compile_pc = "raised"
  /\ compile_err.pos = 3
  /\ orig_code[1] = "x"
  /\ Len(instructions) = 2

\* ------------------------------------------------------------------- C3
\* C3 as stated: '[' alone compiles, and its run on a fresh VM (all cells
\* zero) returns normally.
C3_LoneOpenReturns ==
  orig_code = <<"[">> =>
    /\ compile_pc # "raised"
    /\ (runs = 1 /\ run_pc # "running") => run_pc = "returned"

\* C3 amended: '[' alone compiles, and its run on a fresh VM (all cells
\* zero) does not return normally: the cell tested is zero, so the jump is
\* taken, and with no target resolved run fails with the unclosed-loop error.
C3_LoneOpenRaises ==
  orig_code = <<"[">> =>
    /\ compile_pc # "raised"
    /\ runs = 1 => run_pc # "returned"
    /\ (runs = 1 /\ run_pc = "raised") => "Unclosed loop" \in Range(raised.msg)

\* The run of '[' has failed.
C3_Witness ==
  orig_code = <<"[">> /\ runs = 1 /\ run_pc = "raised"

\* ------------------------------------------------------------------- C4
\* C4: the error that leaves run for an unresolved loop-open whose jump is
\* taken is a BFRuntimeError, not a BFInternalError.
C4_UnclosedLoopIsRuntimeError ==
  (run_pc = "raised" /\ "Unclosed loop" \in Range(raised.msg)) =>
    raised.type = "BFRuntimeError"

\* ------------------------------------------------------------------- C5
\* C5: every call of run starts at instruction pointer 0 and data pointer 0
\* on an all-zero tape, also a later call on a VM that has run before.
C5_RunStartsFromReset ==
  [][RunCall =>
       /\ code_ptr' = 0
       /\ mem_ptr' = 0
       /\ memory' = [i \in 1..mem_size |-> 0]]_vars

\* ------------------------------------------------------------------- C6
TapeShape ==
  /\ Len(memory) = mem_size
  /\ mem_ptr \in 0..(mem_size - 1)
CellsInRange == \A i \in 1..Len(memory) : memory[i] \in 0..(cell_size - 1)

\* C6 as stated: in every state the tape has its configured length, every
\* cell is in [0, cell_size) and the data pointer is in [0, mem_size),
\* whatever characters the input collaborator delivers.
C6_TapeInvariant == TapeShape /\ CellsInRange

\* C6 amended: the tape keeps its length and the data pointer stays in
\* [0, mem_size) in every state; every cell is in [0, cell_size) as long as
\* every character the input collaborator has delivered has a code below
\* cell_size (Input stores the code as it is, with no modulus).
C6_TapeInvariantInputInRange ==
  /\ TapeShape
  /\ (\A i \in 1..Len(delivered) : delivered[i] < cell_size) => CellsInRange

\* A character in range was stored, the data pointer wrapped backward to the
\* last cell and that cell wrapped below zero to cell_size - 1.
C6_Witness ==
  /\ delivered = <<1>>
  /\ mem_size = 2 /\ mem_ptr = 1
  /\ memory = <<1, cell_size - 1>>

\* ------------------------------------------------------------------- C7
\* The reference interpreter: the source characters one at a time on
\* st = [ip, ptr, mem, out, inp], ip the 1-based position in the source.
RECURSIVE RefCloseOf(_, _, _)
RefCloseOf(src, i, depth) ==
  IF src[i] = "]" /\ depth = 0 THEN i
  ELSE RefCloseOf(src, i + 1,
                  depth + (IF src[i] = "[" THEN 1 ELSE 0)
                        - (IF src[i] = "]" THEN 1 ELSE 0))
RECURSIVE RefOpenOf(_, _, _)
RefOpenOf(src, i, depth) ==
  IF src[i] = "[" /\ depth = 0 THEN i
  ELSE RefOpenOf(src, i - 1,
                 depth + (IF src[i] = "]" THEN 1 ELSE 0)
                       - (IF src[i] = "[" THEN 1 ELSE 0))

RefStep(src, st, msize, csize) ==
  LET c == src[st.ip]
      cell == st.mem[st.ptr + 1]
      next == [st EXCEPT !.ip = @ + 1]
  IN CASE c = "+" -> [next EXCEPT !.mem[st.ptr + 1] = (cell + 1) % csize]
       [] c = "-" -> [next EXCEPT !.mem[st.ptr + 1] = (cell - 1) % csize]
       [] c = ">" -> [next EXCEPT !.ptr = (st.ptr + 1) % msize]
       [] c = "<" -> [next EXCEPT !.ptr = (st.ptr - 1) % msize]
       [] c = "," -> [next EXCEPT !.mem[st.ptr + 1] = Head(st.inp),
                                  !.inp = Tail(st.inp)]
       [] c = "." -> [next EXCEPT !.out = Append(@, cell)]
       [] c = "[" -> IF cell = 0
                     THEN [st EXCEPT !.ip = RefCloseOf(src, st.ip + 1, 0) + 1]
                     ELSE next
       [] c = "]" -> IF cell # 0
                     THEN [st EXCEPT !.ip = RefOpenOf(src, st.ip - 1, 0) + 1]
                     ELSE next
       [] OTHER -> next

\* The reference run: "done" at the end of the source, "starved" at a ','
\* with no input left, "fuel" after fuel steps.
RECURSIVE RefRun(_, _, _, _, _)
RefRun(src, st, msize, csize, fuel) ==
  IF st.ip > Len(src) THEN [status |-> "done", st |-> st]
  ELSE IF fuel = 0 THEN [status |-> "fuel", st |-> st]
  ELSE IF src[st.ip] = "," /\ st.inp = <<>> THEN [status |-> "starved", st |-> st]
  ELSE RefRun(src, RefStep(src, st, msize, csize), msize, csize, fuel - 1)

Reference(src, inp, msize, csize) ==
  RefRun(src,
         [ip |-> 1, ptr |-> 0, mem |-> [i \in 1..msize |-> 0], out |-> <<>>,
          inp |-> inp],
         msize, csize, RefFuel)

\* The run on a fresh VM has returned and the reference interpreter, given
\* the characters the run was delivered, ends too, has used all of them, and
\* has the same output, tape and data pointer.
AgreesWithReference ==
  LET r == Reference(orig_code, delivered, mem_size, cell_size) IN
    /\ r.status = "done"
    /\ r.st.inp = <<>>
    /\ r.st.out = output
    /\ r.st.mem = memory
    /\ r.st.ptr = mem_ptr

\* C7 as stated: for a well-bracketed source and any input characters, the
\* run of the compiled program ends with the output, tape and data pointer
\* of the reference interpreter.
C7_MatchesReference ==
  (runs = 1 /\ run_pc = "returned" /\ WellBracketed(orig_code)) =>
    AgreesWithReference

\* C7 amended: the same, for input characters whose codes are below
\* cell_size. (Input stores a larger code as it is, and a merged or elided
\* run then leaves another value than its characters applied one by one.)
C7_MatchesReferenceInputInRange ==
  (/\ runs = 1 /\ run_pc = "returned" /\ WellBracketed(orig_code)
   /\ \A i \in 1..Len(delivered) : delivered[i] \in 0..(cell_size - 1)) =>
    AgreesWithReference

\* A run that read a character in range and went round a loop until the
\* cell was zero.
C7_Witness ==
  /\ runs = 1 /\ run_pc = "returned"
  /\ WellBracketed(orig_code)
  /\ Len(vm_code) > 1
  /\ vm_code[1].type = "getch"
  /\ vm_code[Len(vm_code)].type = "close_loop"
  /\ delivered = <<1>>
  /\ \A i \in 1..Len(memory) : memory[i] = 0

\* ------------------------------------------------------------------- C8
\* The loop-open at address code_ptr takes its jump / the loop-close does.
OpenJumpTaken ==
  /\ ExecOpenLoop
  /\ pyindex(memory, mem_ptr) = 0
  /\ run_pc' = "running"
CloseJumpTaken ==
  /\ ExecCloseLoop
  /\ pyindex(memory, mem_ptr) # 0

C10_InputConditionsPropagate ==
  run_pc = "raised" =>
    ~(/\ raised.type = "BFInternalError"
      /\ Head(raised.msg) \in {"EOFError", "KeyboardInterrupt"})

\* ------------------------------------------------------------------ C11
\* The two families of characters that are merged, and the character of each
\* that counts upwards.
Family(c) == IF c \in {"+", "-"} THEN {"+", "-"} ELSE {"<", ">"}
Up(c) == IF c \in {"+", "-"} THEN "+" ELSE ">"
\* The length of the longest prefix of s made of characters of fam.
RunLen(s, fam) ==
  CHOOSE n \in 0..Len(s) :
    /\ \A i \in 1..n : s[i] \in fam
    /\ n = Len(s) \/ s[n + 1] \notin fam
\* How many of the first n characters of s are c.
Count(s, n, c) == Cardinality({i \in 1..n : s[i] = c})

\* C11: when the cursor of compile is on '+'/'-' (resp. '<'/'>'), it is at
\* the start of a maximal run of that family; for its length n and its
\* number k of '+' (resp. '>'), the iteration advances the cursor by exactly
\* n characters and appends exactly one instruction of delta k - (n - k)
\* when that is nonzero, none when it is zero.
C11_RunsMerge ==
  [][(compile_pc = "loop" /\ Len(code) > 0
        /\ Head(code) \in {"+", "-", "<", ">"}) =>
       LET fam == Family(Head(code))
           n == RunLen(code, fam)
           k == Count(code, n, Up(Head(code)))
           pos == Len(orig_code) - Len(code)
       IN /\ pos = 0 \/ orig_code[pos] \notin fam
          /\ code' = SubSeq(code, n + 1, Len(code))
          /\ IF k - (n - k) = 0
             THEN instructions' = instructions
             ELSE instructions' =
                    Append(instructions,
                           [type |-> RuleName(Head(code)),
                            delta |-> k - (n - k),
                            close_addr |-> None, open_addr |-> None,
                            src |-> SubSeq(code, 1, n)])]_vars

\* A run of three mixed characters was merged into one instruction of delta
\* -1, and the next character went to another instruction.
C11_Witness ==
  /\ compile_pc = "returned"
  /\ Len(instructions) = 2
  /\ instructions[1].type = "move_ptr"
  /\ instructions[1].delta = -1
  /\ Len(instructions[1].src) = 3

\* ------------------------------------------------------------------ C12
\* C12: the run of HelloSource on a fresh VM with a tape of 1024 cells
\* modulo 256 terminates, and the first four values it has written are 72,
\* 101, 108, 108.
C12_HelloTerminates ==
  <>(/\ runs = 1 /\ run_pc = "returned"
     /\ Len(output) >= 4
     /\ SubSeq(output, 1, 4) = <<72, 101, 108, 108>>)

\* The run has returned at the end of the 40 instructions, "Hello" written.
C12_Witness ==
  /\ orig_code = HelloSource
  /\ mem_size = DefaultMemSize /\ cell_size = DefaultCellSize
  /\ runs = 1 /\ run_pc = "returned"
  /\ code_ptr = Len(vm_code)
  /\ output = <<72, 101, 108, 108, 111>>

\* ------------------------------------------------------------------ C13
\* The program is an Input followed by an Output (the source ',.', possibly
\* with characters around it that compile to nothing).
IsEcho(prog) ==
  /\ Len(prog) = 2
  /\ prog[1].type = "getch" /\ prog[2].type = "putch"

\* C13: in the run of ',.' on a fresh VM, once the input collaborator has
\* delivered a character c (not the empty string), cell 0 holds the code of
\* c, every other cell is 0 and the data pointer is 0; what is written is
\* exactly c, and the run returns only after writing it.
C13_EchoRoundTrip ==
  (run_pc # "idle" /\ IsEcho(vm_code)) =>
    LET IsChar(c) == c # EmptyStr
        chars == SelectSeq(delivered, IsChar)
    IN /\ mem_ptr = 0
       /\ \A i \in 2..mem_size : memory[i] = 0
       /\ IF chars = <<>>
          THEN memory[1] = 0 /\ output = <<>> /\ run_pc # "returned"
          ELSE /\ Len(chars) = 1
               /\ memory[1] = chars[1]
               /\ output \in {<<>>, <<chars[1]>>}
               /\ run_pc = "returned" => output = <<chars[1]>>

\* The run of ',.' returned after echoing the line feed a carriage return
\* was delivered as, its code 10 far outside the cell range of the VM.
C13_Witness ==
  /\ orig_code = <<",", ".">>
  /\ cell_size = 2
  /\ runs = 1 /\ run_pc = "returned"
  /\ delivered = <<LF>>
  /\ output = <<LF>>
  /\ memory[1] = LF

\* ------------------------------------------------------------------ C14
Max(a, b) == IF a >= b THEN a ELSE b
Min(a, b) == IF a <= b THEN a ELSE b

\* C14: disasm(program, start, end, code_ptr) does not fail, and its lines
\* are, in order, those of the indexes of [start, end] clamped to
\* [0, len(program) - 1] on both sides, each showing the instruction at its
\* index and marked exactly when the index equals code_ptr.
C14_DisasmClampsBothSides ==
  disassembly # <<>> =>
    LET c == disassembly[1]
        prog == bytecode[1]
        lo == Max(c.start, 0)
        hi == IF c.end = NoEnd THEN Len(prog) - 1
              ELSE Min(c.end[1], Len(prog) - 1)
        lines == c.result.lines
    IN /\ c.result.exc = NoExc
       /\ Len(lines) = Max(hi - lo + 1, 0)
       /\ \A k \in 1..Len(lines) :
            /\ lines[k].addr = lo + k - 1
            /\ lines[k].mark = (lines[k].addr = c.code_ptr)
            /\ lines[k].repr = inst_repr(prog[lo + k])
            /\ lines[k].src = prog[lo + k].src

\* ------------------------------------------------------------------ C15
\* The run called by main was interrupted, and main has ended.
InterruptedMainEnded ==
  /\ main_pc # "body"
  /\ run_pc = "raised"
  /\ raised.type = "KeyboardInterrupt"

\* C15: when the run is interrupted, main with the debug flag set returns
\* without an exception after printing the last state (the instruction
\* pointer, the data pointer, the disassembly around the instruction pointer
\* with that line marked, the tape around the data pointer with that cell
\* bracketed); with the flag unset the interrupt leaves main and nothing is
\* printed.
C15_InterruptAndDebug ==
  InterruptedMainEnded =>
    IF args.debug
    THEN /\ main_pc = "returned" /\ main_exc = NoExc
         /\ Len(printed) = 5
         /\ printed[2].ip = code_ptr /\ printed[2].mp = mem_ptr
         /\ LET lines == printed[4].lines IN
              /\ Len(lines) = Len(vm_code)
              /\ \A k \in 1..Len(lines) :
                   /\ lines[k].addr = k - 1
                   /\ lines[k].mark = (k - 1 = code_ptr)
                   /\ lines[k].repr = inst_repr(vm_code[k])
         /\ LET cells == printed[5].cells IN
              /\ Len(cells) = mem_size
              /\ \A i \in 1..Len(cells) :
                   /\ cells[i].val = memory[i]
                   /\ cells[i].bracketed = (i - 1 = mem_ptr)
    ELSE /\ main_pc = "raised"
         /\ main_exc.type = "KeyboardInterrupt"
         /\ printed = <<>>

\* main with --debug has printed the state of a run that was interrupted at
\* its second instruction, after the pointer had moved to the second cell.
C15_Witness ==
  /\ InterruptedMainEnded
  /\ args.debug /\ main_pc = "returned"
  /\ code_ptr = 1 /\ mem_ptr = 1
  /\ Len(printed) = 5
  /\ printed[4].lines[2].mark
  /\ printed[5].cells[2].bracketed

\* ------------------------------------------------------------------ C16
\* The instruction fetched next is a loop-open whose close_addr was never
\* resolved.
AtUnresolvedOpen ==
  /\ Fetching("open_loop")
  /\ pyindex(vm_code, code_ptr).close_addr = None

\* C16: executing an unresolved loop-open raises the 'Unclosed loop' error
\* exactly when the cell under the data pointer is zero; when the cell is
\* nonzero the run goes on at the next instruction with no error, the tape,
\* the data pointer and the output as they were.
C16_UnresolvedOpenRaisesIffZero ==
  [][AtUnresolvedOpen =>
       IF pyindex(memory, mem_ptr) = 0
       THEN /\ run_pc' = "raised"
            /\ "Unclosed loop" \in Range(raised'.msg)
       ELSE /\ run_pc' = "running" /\ raised' = NoExc
            /\ code_ptr' = code_ptr + 1
            /\ UNCHANGED <<memory, mem_ptr, mem_size, cell_size, vm_code,
                           output, delivered>>]_vars

\* The run of '+[' has returned: the lone loop-open was executed on a cell
\* holding 1 and fell through.
C16_Witness ==
  /\ orig_code = <<"+", "[">>
  /\ runs = 1 /\ run_pc = "returned"
  /\ code_ptr = 2
  /\ memory[1] = 1

\* ------------------------------------------------------------------ C17
\* C17: every iteration of the compile loop either raises the compile error
\* or leaves the remaining source strictly shorter; the loop ends by
\* returning only when nothing remains, and compile always ends.
C17_CompileTerminates ==
  /\ [][compile_pc = "loop" =>
          \/ compile_pc' = "raised"
          \/ compile_pc' = "loop" /\ Len(code') < Len(code)
          \/ compile_pc' = "returned" /\ Len(code) = 0 /\ code' = code]_vars
  /\ [](compile_pc = "returned" => Len(code) = 0)
  /\ <>(compile_pc # "loop")

\* compile returned after an iteration that emitted no instruction (a run
\* summing to zero) and one that appended an instruction.
C17_Witness ==
  /\ compile_pc = "returned"
  /\ orig_code = <<"+", "-", ".">>
  /\ code = <<>>
  /\ Len(instructions) = 1

\* ------------------------------------------------------------------ C18
\* C18: a compile iteration leaves every instruction already appended as it
\* was, except that the iteration compiling a ']' writes the close_addr of
\* one loop-open: the one matching the loop-close it appends, whose
\* close_addr was unset until then. An iteration that raises changes no
\* instruction.
C18_OnlyBackfill ==
  [][compile_pc = "loop" =>
       /\ Len(instructions') >= Len(instructions)
       /\ compile_pc' = "raised" => instructions' = instructions
       /\ \A i \in 1..Len(instructions) :
            \/ instructions'[i] = instructions[i]
            \/ /\ Head(code) = "]"
               /\ Len(instructions') = Len(instructions) + 1
               /\ instructions'[Len(instructions')].type = "close_loop"
               /\ instructions[i].type = "open_loop"
               /\ instructions[i].close_addr = None
               /\ instructions'[i] =
                    [instructions[i] EXCEPT !.close_addr = Len(instructions)]
               /\ <<i - 1, Len(instructions)>> \in Pairs(instructions')
               /\ \A j \in 1..Len(instructions) :
                    j # i => instructions'[j] = instructions[j]]_vars

\* '[[]]' is compiled: each loop-open was back-filled by its own loop-close,
\* the outer one while the inner one was already resolved.
C18_Witness ==
  /\ compile_pc = "returned"
  /\ orig_code = <<"[", "[", "]", "]">>
  /\ instructions[1].close_addr = 3
  /\ instructions[2].close_addr = 2

\* ------------------------------------------------------------------ C19
\* C19: in run, an instruction is fetched only at 0 <= code_ptr <
\* len(program); after every completed step 0 <= code_ptr <= len(program);
\* and when run returns, code_ptr = len(program).
C19_CodePtrInProgram ==
  [][run_pc = "running" =>
       /\ code_ptr < Len(vm_code) => 0 <= code_ptr
       /\ run_pc' = "running" =>
            0 <= code_ptr' /\ code_ptr' <= Len(vm_code)
       /\ run_pc' = "returned" => code_ptr' = Len(vm_code)]_vars

\* ------------------------------------------------------------------ C20
\* C20: an executed instruction changes only what its kind may change. Delta
\* and Input: the cell under the data pointer; Move: the data pointer;
\* Output: nothing of the VM; loop-open and loop-close: neither the tape nor
\* the data pointer, and the instruction pointer only by a taken jump. Apart
\* from a taken jump the instruction pointer is the one of the instruction,
\* incremented by run when the instruction did not raise. No instruction
\* changes the program, the tape length or the cell modulus.
C20_FrameEffects ==
  [][(run_pc = "running" /\ code_ptr < Len(vm_code)) =>
       LET inst == pyindex(vm_code, code_ptr)
           cell == pyindex(memory, mem_ptr)
           OtherCellsSame ==
             \A i \in 1..Len(memory) : i # mem_ptr + 1 => memory'[i] = memory[i]
           NoJump ==
             /\ run_pc' = "running" => code_ptr' = code_ptr + 1
             /\ run_pc' = "raised" => code_ptr' = code_ptr
           jumps ==
             \/ inst.type = "open_loop" /\ cell = 0 /\ inst.close_addr # None
             \/ inst.type = "close_loop" /\ cell # 0
       IN /\ vm_code' = vm_code
          /\ mem_size' = mem_size /\ cell_size' = cell_size
          /\ Len(memory') = Len(memory)
          /\ run_pc' \in {"running", "raised"}
          /\ jumps \/ NoJump
          /\ inst.type \in {"add", "getch"} =>
               mem_ptr' = mem_ptr /\ OtherCellsSame
          /\ inst.type = "move_ptr" => memory' = memory
          /\ inst.type \in {"putch", "open_loop", "close_loop"} =>
               memory' = memory /\ mem_ptr' = mem_ptr
          /\ inst.type # "putch" => output' = output]_vars

\* The run of ',>+.' has returned: an Input, a Move, a Delta and an Output
\* were executed, each on its own part of the state.
C20_Witness ==
  /\ orig_code = <<",", ">", "+", ".">>
  /\ runs = 1 /\ run_pc = "returned"
  /\ delivered = <<1>>
  /\ mem_ptr = 1
  /\ memory = <<1, 1>>
  /\ output = <<1>>
====
